---- MODULE Spec2Model ----
(***************************************************************************)
(* Slot booking and cancellation of the HealthBridge backend.              *)
(*                                                                         *)
(* The database holds the doctor documents (doctorModel) and the           *)
(* appointment documents (appointmentModel).  Every HTTP request is an     *)
(* async handler: between two awaits it runs alone, at an await other      *)
(* requests may run.  One action of the model is one such stretch.         *)
(***************************************************************************)
EXTENDS Integers, Sequences, FiniteSets, Bags, TLC

\* ---------------------------------------------------------------- bounds
NumRequests == 2          \* requests that may be in flight together
MaxAppointments == 2      \* appointment documents the collection may hold
MaxOrders == 1            \* orders the payment provider may hold
MaxVisits == 1            \* appointments booked in SpecOffice

Users   == {"u1", "u2"}
Doctors == {"d1"}
Dates   == {"2024-01-15"}
Times   == {"10:00", "11:00"}

\* the fee of each doctor document (doctorSchema.fees)
Fees == [d \in Doctors |-> 500]

\* ---------------------------------------------------------------- tokens
\* jwt.sign(payload, JWT_SECRET): the payload is an object {id} for users
\* and doctors and the string ADMIN_EMAIL + ADMIN_PASSWORD for the admin.
\* issuedTo is not part of the token: it records which login produced it.
Undefined == "undefined"
AdminCredential == "admin@example.com" \o "admin123"

Sign(shape, id, kind) ==
    [signed |-> TRUE, shape |-> shape, id |-> id, issuedTo |-> kind]

loginUser(u)   == Sign("object", u, "user")
loginDoctor(d) == Sign("object", d, "doctor")
loginAdmin     == Sign("string", AdminCredential, "admin")

\* a header that is absent, and a token that was not signed with JWT_SECRET
NoToken     == [signed |-> FALSE, shape |-> "absent", id |-> Undefined, issuedTo |-> "nobody"]
ForgedToken == [signed |-> FALSE, shape |-> "object", id |-> "u1", issuedTo |-> "nobody"]

Tokens == {loginUser(u) : u \in Users} \cup {loginDoctor(d) : d \in Doctors}
          \cup {loginAdmin, NoToken, ForgedToken}

\* jwt.verify(token, JWT_SECRET) throws unless the signature is ours
jwtVerifies(token) == token.signed

\* token_decode.id: a string payload has no property id
DecodeId(token) == IF token.shape = "object" THEN token.id ELSE Undefined

\* middleware/authUser.js: the id the request continues with, or Undefined
\* together with accepted = FALSE when the request is answered at once
authUser(token) ==
    IF token.shape = "absent" THEN [accepted |-> FALSE, id |-> Undefined]
    ELSE IF ~jwtVerifies(token) THEN [accepted |-> FALSE, id |-> Undefined]
    ELSE [accepted |-> TRUE, id |-> DecodeId(token)]

\* middleware/authDoctor.js
authDoctor(token) ==
    IF ~jwtVerifies(token) THEN [accepted |-> FALSE, id |-> Undefined]
    ELSE [accepted |-> TRUE, id |-> DecodeId(token)]

\* middleware/authAdmin.js
authAdmin(token) ==
    IF ~jwtVerifies(token) THEN [accepted |-> FALSE, id |-> Undefined]
    ELSE IF token.shape # "string" \/ token.id # AdminCredential
         THEN [accepted |-> FALSE, id |-> Undefined]
    ELSE [accepted |-> TRUE, id |-> "admin"]

\* ---------------------------------------------------------------- state
VARIABLES
    doctors,        \* doctorModel: docId -> document
    appointments,   \* appointmentModel: the documents in creation order, _id = index
    reqs,           \* the handlers in flight: a bag of their positions and locals
    res,            \* the last answer sent with res.json
    orders,         \* the orders the payment provider has created, oldest first
    images,         \* the image URLs the media store holds
    server          \* the server process: its environment and what it listens on

\* what lives outside the database
outside == <<orders, images, server>>

vars == <<doctors, appointments, reqs, res, orders, images, server>>

\* slots_booked: { date: [time, ...] }, default {}
EmptySlots == [t \in {} |-> <<>>]

\* a check that looks at the first booked time of the date only
Includes_FirstOnly(slots_booked, slotDate, slotTime) ==
    /\ slotDate \in DOMAIN slots_booked
    /\ Len(slots_booked[slotDate]) > 0
    /\ slots_booked[slotDate][1] = slotTime

\* slots_booked[slotDate]?.includes(slotTime)
Includes(slots_booked, slotDate, slotTime) ==
    /\ slotDate \in DOMAIN slots_booked
    /\ \E i \in 1..Len(slots_booked[slotDate]) : slots_booked[slotDate][i] = slotTime

\* slots_booked[slotDate] = slots_booked[slotDate] || []; .push(slotTime)
Push(slots_booked, slotDate, slotTime) ==
    [t \in DOMAIN slots_booked \cup {slotDate} |->
        IF t = slotDate
        THEN Append(IF slotDate \in DOMAIN slots_booked THEN slots_booked[slotDate] ELSE <<>>,
                    slotTime)
        ELSE slots_booked[t]]

\* "Remove time from doctor's slots_booked[date] array"; a date the object
\* does not hold is left alone
RemoveTime(slots_booked, slotDate, slotTime) ==
    IF slotDate \in DOMAIN slots_booked
    THEN [slots_booked EXCEPT ![slotDate] = SelectSeq(@, LAMBDA e : e # slotTime)]
    ELSE slots_booked

\* amount of a new appointment: the fee of the doctor document that was read
AppointmentAmount(docData) == docData.fees

\* an appointment that does not take over the fee
NewAppointment_NoFee(userId, docId, slotDate, slotTime, amount) ==
    [userId |-> userId, docId |-> docId, slotDate |-> slotDate, slotTime |-> slotTime,
     amount |-> 0, cancelled |-> FALSE, payment |-> FALSE, isCompleted |-> FALSE]

\* new appointmentModel({ userId, docId, slotDate, slotTime, ... }) with the
\* schema's defaults for the three flags
NewAppointment(userId, docId, slotDate, slotTime, amount) ==
    [userId |-> userId, docId |-> docId, slotDate |-> slotDate, slotTime |-> slotTime,
     amount |-> amount, cancelled |-> FALSE, payment |-> FALSE, isCompleted |-> FALSE]

\* userId: { type: String, required: true }: save() rejects a document
\* without a userId
Validates(appointment) == appointment.userId # Undefined

\* "1. Find appointment by ID": the _id of the document found, NoDocument
\* when the collection holds none with that id
NoDocument == 0

\* a lookup that falls back to the newest document
FindAppointment_Newest(appointmentId) ==
    IF appointmentId \in 1..Len(appointments) THEN appointmentId ELSE Len(appointments)

FindAppointment(appointmentId) ==
    IF appointmentId \in 1..Len(appointments) THEN appointmentId ELSE NoDocument

\* the answers of a cancel that is not carried out
NotFound  == "NotFound"
Forbidden == "Forbidden"

\* a check that lets every user cancel
MayCancel_AnyUser(appointment, header, principal) ==
    \/ header = "atoken"
    \/ header = "token"
    \/ header = "dtoken" /\ appointment.docId = principal

\* who may cancel an appointment: its user, its doctor, the admin
MayCancel(appointment, header, principal) ==
    \/ header = "atoken"
    \/ header = "token"  /\ appointment.userId = principal
    \/ header = "dtoken" /\ appointment.docId = principal

\* the middleware each header goes through
Authenticate(header, token) ==
    IF header = "token" THEN authUser(token)
    ELSE IF header = "dtoken" THEN authDoctor(token)
    ELSE authAdmin(token)

\* the locals of a handler; pc is the await it is suspended at
Handler == [pc |-> "start", userId |-> Undefined, docId |-> "none", slotDate |-> "none",
            slotTime |-> "none", appointmentId |-> 0, amount |-> 0,
            slots_booked |-> EmptySlots, image |-> "none", seen |-> {}]

\* res.json(...)
Answer(op, result) == [op |-> op, result |-> result]
NoRes == Answer("none", "none")

\* ------------------------------------------------------------- server.js
\* process.env: a value is a string, or Undefined when the variable is unset
NodeEnvs     == {Undefined, "production", "development", "test"}
VercelValues == {Undefined, "1", ""}
PortValues   == {Undefined, "3000", "8080", ""}

Envs == [NODE_ENV : NodeEnvs, VERCEL : VercelValues, PORT : PortValues]

\* what `!v` and `v || w` take for false: an unset variable, the empty string
Truthy(v) == v # Undefined /\ v # ""

\* const port = process.env.PORT || 4000
DefaultPort == "4000"
Port(env) == IF Truthy(env.PORT) THEN env.PORT ELSE DefaultPort

\* if (process.env.NODE_ENV !== 'production' || !process.env.VERCEL)
Listens(env) == env.NODE_ENV # "production" \/ ~Truthy(env.VERCEL)

\* the process before server.js has run, and after: the app is exported and,
\* where the guard passes, listens on the port
NotListening == "none"
Loaded(env)  == [env |-> env, exported |-> FALSE, port |-> NotListening]
Started(env) == [env |-> env, exported |-> TRUE,
                 port |-> IF Listens(env) THEN Port(env) ELSE NotListening]

\* `node server.js` on a developer's machine, no variable set
LocalEnv == [NODE_ENV |-> Undefined, VERCEL |-> Undefined, PORT |-> Undefined]

\* ------------------------------------------------------------ media store
\* imageUpload.secure_url of the image uploaded for a doctor
ImageUrl(d) == "https://res.cloudinary.com/" \o d

\* the database as the booking flows start from it: the doctors of Doctors
\* were added with their images, no appointment yet
InitDatabase ==
    /\ doctors = [d \in Doctors |-> [available |-> TRUE, fees |-> Fees[d],
                                     slots_booked |-> EmptySlots, image |-> ImageUrl(d)]]
    /\ appointments = <<>>
    /\ reqs = EmptyBag
    /\ res = NoRes
    /\ orders = <<>>
    /\ images = {ImageUrl(d) : d \in Doctors}

Init ==
    /\ InitDatabase
    /\ server = Started(LocalEnv)

\* ------------------------------------------------------------ observation
\* seen is a set of tags that no handler reads:
\*   "rival"      another book of the same slot, running at the same time,
\*                was answered with success
\*   "cancelled"  the appointment to be cancelled was cancelled already when
\*                the request found it
Active(docId, slotDate, slotTime) ==
    \E i \in 1..Len(appointments) :
        /\ appointments[i].docId = docId /\ appointments[i].slotDate = slotDate
        /\ appointments[i].slotTime = slotTime /\ ~appointments[i].cancelled

WasCancelled(docId, slotDate, slotTime) ==
    \E i \in 1..Len(appointments) :
        /\ appointments[i].docId = docId /\ appointments[i].slotDate = slotDate
        /\ appointments[i].slotTime = slotTime /\ appointments[i].cancelled

Quiet == reqs = EmptyBag

Booking(q) == q.pc \in {"book_update", "book_save"}

SameSlot(q1, q2) ==
    /\ q1.docId = q2.docId /\ q1.slotDate = q2.slotDate /\ q1.slotTime = q2.slotTime

\* ---------------------------------------------------------- the requests
One(q) == SetToBag({q})

\* a request is taken up while fewer than NumRequests are in flight
Accepting == BagCardinality(reqs) < NumRequests

\* handler q moves on to position q2; handler q ends
Moved(q, q2) == (reqs (-) One(q)) (+) One(q2)
Ended(q) == reqs (-) One(q)

\* the handlers left when q ends with a booking, each booking of the same
\* slot among them tagged "rival"
RECURSIVE Tagged(_, _)
Tagged(bag, q) ==
    IF bag = EmptyBag THEN EmptyBag
    ELSE LET e == CHOOSE x \in BagToSet(bag) : TRUE
             te == IF Booking(e) /\ SameSlot(e, q)
                   THEN [e EXCEPT !.seen = @ \cup {"rival"}] ELSE e
         IN  Tagged(bag (-) One(e), q) (+) One(te)

\* ------------------------------------------------- POST /book-appointment
\* authUser, then bookAppointment up to its second await: findById, the
\* check of the slot and the push into the local slots_booked
BookAppointment(token, docId, slotDate, slotTime) ==
    /\ UNCHANGED outside
    /\ Accepting
    /\ LET auth == authUser(token)
           docData == doctors[docId]
           slots_booked == docData.slots_booked
       IN  IF ~auth.accepted
           THEN /\ res' = Answer("book", "Not Authorized")
                /\ UNCHANGED <<doctors, appointments, reqs>>
           ELSE IF Includes(slots_booked, slotDate, slotTime)
           THEN /\ res' = Answer("book", "Slot Not Available")
                /\ UNCHANGED <<doctors, appointments, reqs>>
           ELSE /\ Len(appointments) < MaxAppointments
                /\ reqs' = reqs (+) One([Handler EXCEPT
                                           !.pc = "book_update",
                                           !.userId = auth.id,
                                           !.docId = docId, !.slotDate = slotDate,
                                           !.slotTime = slotTime,
                                           !.amount = AppointmentAmount(docData),
                                           !.slots_booked = Push(slots_booked, slotDate, slotTime)])
                /\ res' = NoRes
                /\ UNCHANGED <<doctors, appointments>>

\* await doctorModel.findByIdAndUpdate(docId, { slots_booked })
BookUpdateDoctor(q) ==
    /\ UNCHANGED outside
    /\ q.pc = "book_update"
    /\ doctors' = [doctors EXCEPT ![q.docId].slots_booked = q.slots_booked]
    /\ reqs' = Moved(q, [q EXCEPT !.pc = "book_save"])
    /\ res' = NoRes
    /\ UNCHANGED appointments

\* await newAppointment.save(), then the answer
BookSaveAppointment(q) ==
    /\ UNCHANGED outside
    /\ q.pc = "book_save"
    /\ Len(appointments) < MaxAppointments
    /\ LET newAppointment == NewAppointment(q.userId, q.docId, q.slotDate, q.slotTime, q.amount)
       IN  IF Validates(newAppointment)
           THEN /\ appointments' = Append(appointments, newAppointment)
                /\ res' = Answer("book", "Appointment Booked")
                /\ reqs' = Tagged(Ended(q), q)
           ELSE /\ res' = Answer("book", "ValidationError")
                /\ reqs' = Ended(q)
                /\ UNCHANGED appointments
    /\ UNCHANGED doctors

\* ----------------------------------------------- POST /cancel-appointment
\* the middleware of the route, then "1. Find appointment by ID" and
\* "2. Get doctor ID, date, time from appointment"
CancelAppointment(header, token, appointmentId) ==
    /\ UNCHANGED outside
    /\ Accepting
    /\ LET auth == Authenticate(header, token)
           found == FindAppointment(appointmentId)
       IN  IF ~auth.accepted
           THEN /\ res' = Answer("cancel", "Not Authorized")
                /\ UNCHANGED <<doctors, appointments, reqs>>
           ELSE IF found = NoDocument
           THEN /\ res' = Answer("cancel", NotFound)
                /\ UNCHANGED <<doctors, appointments, reqs>>
           ELSE IF ~MayCancel(appointments[found], header, auth.id)
           THEN /\ res' = Answer("cancel", Forbidden)
                /\ UNCHANGED <<doctors, appointments, reqs>>
           ELSE /\ reqs' = reqs (+) One([Handler EXCEPT
                                           !.pc = "cancel_read",
                                           !.appointmentId = found,
                                           !.docId = appointments[found].docId,
                                           !.slotDate = appointments[found].slotDate,
                                           !.slotTime = appointments[found].slotTime,
                                           !.seen = IF appointments[found].cancelled
                                                    THEN {"cancelled"} ELSE {}])
                /\ res' = NoRes
                /\ UNCHANGED <<doctors, appointments>>

\* "3. Remove time from doctor's slots_booked[date] array": the doctor is
\* read and the time filtered out of the local copy ...
CancelReadDoctor(q) ==
    /\ UNCHANGED outside
    /\ q.pc = "cancel_read"
    /\ reqs' = Moved(q, [q EXCEPT !.pc = "cancel_update",
                                  !.slots_booked = RemoveTime(doctors[q.docId].slots_booked,
                                                              q.slotDate, q.slotTime)])
    /\ res' = NoRes
    /\ UNCHANGED <<doctors, appointments>>

\* ... and the whole object written back, as bookAppointment does
CancelUpdateDoctor(q) ==
    /\ UNCHANGED outside
    /\ q.pc = "cancel_update"
    /\ doctors' = [doctors EXCEPT ![q.docId].slots_booked = q.slots_booked]
    /\ reqs' = Moved(q, [q EXCEPT !.pc = "cancel_mark"])
    /\ res' = NoRes
    /\ UNCHANGED appointments

\* a mark that saves the appointment anew, built from the doctor document
\* as it is now
CancelMarkAppointment_Resaved(q) ==
    /\ UNCHANGED outside
    /\ q.pc = "cancel_mark"
    /\ appointments' = [appointments EXCEPT ![q.appointmentId] =
                            [@ EXCEPT !.amount = doctors[q.docId].fees, !.cancelled = TRUE]]
    /\ res' = Answer("cancel", "Appointment Cancelled")
    /\ reqs' = Ended(q)
    /\ UNCHANGED doctors

\* "4. Mark appointment as cancelled", then the answer
CancelMarkAppointment(q) ==
    /\ UNCHANGED outside
    /\ q.pc = "cancel_mark"
    /\ appointments' = [appointments EXCEPT ![q.appointmentId].cancelled = TRUE]
    /\ res' = Answer("cancel", "Appointment Cancelled")
    /\ reqs' = Ended(q)
    /\ UNCHANGED doctors

\* ----------------------------------------------- POST /change-availability
\* a toggle that writes the document back with the schema's default ledger
ChangeAvailability_DefaultSlots(docId) ==
    /\ UNCHANGED outside
    /\ doctors' = [doctors EXCEPT ![docId].available = ~@, ![docId].slots_booked = EmptySlots]
    /\ res' = NoRes
    /\ UNCHANGED <<appointments, reqs>>

\* changeAvailablity: toggles the doctor's availability status
ChangeAvailability(docId) ==
    /\ UNCHANGED outside
    /\ doctors' = [doctors EXCEPT ![docId].available = ~@]
    /\ res' = NoRes
    /\ UNCHANGED <<appointments, reqs>>

\* ------------------------------------------------- POST /payment-razorpay
\* an order as the provider stores it: options.receipt and options.amount
Order(appointmentId, amount) == [receipt |-> appointmentId, amount |-> amount]

\* amount: appointmentData.amount * 100, paise
Paise(amount) == amount * 100

\* authUser, then paymentRazorpay up to its second await: findById and the
\* options.  appointmentData is null for an id that finds no document and
\* reading its amount throws.
PaymentRazorpay(token, appointmentId) ==
    /\ Accepting
    /\ UNCHANGED <<doctors, appointments, outside>>
    /\ LET auth == authUser(token)
           found == FindAppointment(appointmentId)
       IN  IF ~auth.accepted
           THEN /\ res' = Answer("pay", "Not Authorized")
                /\ UNCHANGED reqs
           ELSE IF found = NoDocument
           THEN /\ res' = Answer("pay", "TypeError")
                /\ UNCHANGED reqs
           ELSE /\ Len(orders) < MaxOrders
                /\ reqs' = reqs (+) One([Handler EXCEPT
                                           !.pc = "pay_create",
                                           !.appointmentId = found,
                                           !.amount = Paise(appointments[found].amount)])
                /\ res' = NoRes

\* await razorpayInstance.orders.create(options), then the answer
PayCreateOrder(q) ==
    /\ q.pc = "pay_create"
    /\ orders' = Append(orders, Order(q.appointmentId, q.amount))
    /\ res' = Answer("pay", "success")
    /\ reqs' = Ended(q)
    /\ UNCHANGED <<doctors, appointments, images, server>>

\* ---------------------------------------------------- POST /verifyRazorpay
\* verifyPayment: marks the appointment of the order as paid when the
\* provider reports the order paid
VerifyRazorpay(token, orderId, paid) ==
    /\ Accepting
    /\ UNCHANGED <<doctors, reqs, outside>>
    /\ IF ~authUser(token).accepted
       THEN /\ res' = Answer("verify", "Not Authorized")
            /\ UNCHANGED appointments
       ELSE IF orderId \notin 1..Len(orders) \/ ~paid
       THEN /\ res' = Answer("verify", "VerificationFailed")
            /\ UNCHANGED appointments
       ELSE /\ appointments' = [appointments EXCEPT ![orders[orderId].receipt].payment = TRUE]
            /\ res' = Answer("verify", "Payment Successful")

\* ---------------------------------------------- POST /complete-appointment
\* complete: sets isCompleted; only the doctor of the appointment may call
CompleteAppointment(token, appointmentId) ==
    /\ Accepting
    /\ UNCHANGED <<doctors, reqs, outside>>
    /\ LET auth == authDoctor(token)
           found == FindAppointment(appointmentId)
       IN  IF ~auth.accepted
           THEN /\ res' = Answer("complete", "Not Authorized")
                /\ UNCHANGED appointments
           ELSE IF found = NoDocument
           THEN /\ res' = Answer("complete", NotFound)
                /\ UNCHANGED appointments
           ELSE IF appointments[found].docId # auth.id
           THEN /\ res' = Answer("complete", Forbidden)
                /\ UNCHANGED appointments
           ELSE /\ appointments' = [appointments EXCEPT ![found].isCompleted = TRUE]
                /\ res' = Answer("complete", "Appointment Completed")

\* ----------------------------------------- POST /api/doctor/update-profile
\* the fees a doctor may set
FeeValues == {500, 700}

\* updateProfile(doctorId, fields): writes the fields into the doctor document
UpdateDoctorProfile(token, fees) ==
    /\ Accepting
    /\ UNCHANGED <<appointments, reqs, outside>>
    /\ LET auth == authDoctor(token)
       IN  IF ~auth.accepted \/ auth.id \notin DOMAIN doctors
           THEN /\ res' = Answer("update-profile", "Not Authorized")
                /\ UNCHANGED doctors
           ELSE /\ doctors' = [doctors EXCEPT ![auth.id].fees = fees]
                /\ res' = Answer("update-profile", "Profile Updated")

\* --------------------------------------------------------- the read routes
\* loginUser: findOne, bcrypt.compare, jwt.sign
LoginUser(u) ==
    /\ res' = Answer("login", "success")
    /\ UNCHANGED <<doctors, appointments, reqs, outside>>

\* GET /api/doctor/list
DoctorList ==
    /\ res' = Answer("list", "success")
    /\ UNCHANGED <<doctors, appointments, reqs, outside>>

\* GET /api/doctor/dashboard: a read-only view of the appointments
DoctorDashboard(token) ==
    /\ res' = Answer("dashboard", IF authDoctor(token).accepted THEN "success" ELSE "Not Authorized")
    /\ UNCHANGED <<doctors, appointments, reqs, outside>>

\* -------------------------------------------------------- POST /add-doctor
\* the doctors the admin may add; the id stands for the unique email too
NewDoctors == {"d2", "d3"}

\* authAdmin, then addDoctor up to its first await
AddDoctor(token, docId) ==
    /\ Accepting
    /\ UNCHANGED <<doctors, appointments, outside>>
    /\ IF ~authAdmin(token).accepted
       THEN /\ res' = Answer("add-doctor", "Not Authorized")
            /\ UNCHANGED reqs
       ELSE /\ reqs' = reqs (+) One([Handler EXCEPT !.pc = "add_upload", !.docId = docId])
            /\ res' = NoRes

\* an upload whose failure is swallowed: the handler goes on with the URL it
\* expected
AddUploadImage_Swallowed(q, uploaded) ==
    /\ q.pc = "add_upload"
    /\ images' = IF uploaded THEN images \cup {ImageUrl(q.docId)} ELSE images
    /\ reqs' = Moved(q, [q EXCEPT !.pc = "add_hash", !.image = ImageUrl(q.docId)])
    /\ res' = NoRes
    /\ UNCHANGED <<doctors, appointments, orders, server>>

\* await cloudinary.uploader.upload(imageFile.path): the store holds the
\* image and the handler its secure_url, or the call throws and the handler
\* ends there
AddUploadImage(q, uploaded) ==
    /\ q.pc = "add_upload"
    /\ IF uploaded
       THEN /\ images' = images \cup {ImageUrl(q.docId)}
            /\ reqs' = Moved(q, [q EXCEPT !.pc = "add_hash", !.image = ImageUrl(q.docId)])
            /\ res' = NoRes
       ELSE /\ reqs' = Ended(q)
            /\ res' = Answer("add-doctor", "UploadError")
            /\ UNCHANGED images
    /\ UNCHANGED <<doctors, appointments, orders, server>>

\* await bcrypt.hash(password, 10)
AddHashPassword(q) ==
    /\ q.pc = "add_hash"
    /\ reqs' = Moved(q, [q EXCEPT !.pc = "add_save"])
    /\ res' = NoRes
    /\ UNCHANGED <<doctors, appointments, outside>>

\* the document of new doctorModel({ ..., image: imageUrl, ... })
NewDoctor(image) ==
    [available |-> TRUE, fees |-> 500, slots_booked |-> EmptySlots, image |-> image]

\* await newDoctor.save(): email is unique, a second document with it is
\* rejected
AddSaveDoctor(q) ==
    /\ q.pc = "add_save"
    /\ IF q.docId \in DOMAIN doctors
       THEN /\ res' = Answer("add-doctor", "E11000 duplicate key")
            /\ UNCHANGED doctors
       ELSE /\ doctors' = [d \in DOMAIN doctors \cup {q.docId} |->
                              IF d = q.docId THEN NewDoctor(q.image) ELSE doctors[d]]
            /\ res' = Answer("add-doctor", "Doctor Added")
    /\ reqs' = Ended(q)
    /\ UNCHANGED <<appointments, outside>>

\* ------------------------------------------------------- specifications
Headers == {"token", "dtoken", "atoken"}
AppointmentIds == 1..MaxAppointments

\* Spec: up to NumRequests requests in flight.  The clients are one user,
\* the doctors and the admin, each sending the token of its own login in the
\* header of its own routes.
Patient == "u1"

OwnTokens(header) ==
    IF header = "token" THEN {loginUser(Patient)}
    ELSE IF header = "dtoken" THEN {loginDoctor(d) : d \in Doctors}
    ELSE {loginAdmin}

Next ==
    \/ \E token \in OwnTokens("token"), docId \in Doctors, slotDate \in Dates, slotTime \in Times :
          BookAppointment(token, docId, slotDate, slotTime)
    \/ \E q \in BagToSet(reqs) : BookUpdateDoctor(q)
    \/ \E q \in BagToSet(reqs) : BookSaveAppointment(q)
    \/ \E header \in Headers, appointmentId \in AppointmentIds :
          \E token \in OwnTokens(header) : CancelAppointment(header, token, appointmentId)
    \/ \E q \in BagToSet(reqs) : CancelReadDoctor(q)
    \/ \E q \in BagToSet(reqs) : CancelUpdateDoctor(q)
    \/ \E q \in BagToSet(reqs) : CancelMarkAppointment(q)
    \/ \E docId \in Doctors : ChangeAvailability(docId)

Spec == Init /\ [][Next]_vars

\* SpecAuth: one request at a time, any token in any header.
NextAuth ==
    \/ /\ Quiet
       /\ \E token \in Tokens, docId \in Doctors, slotDate \in Dates, slotTime \in Times :
             BookAppointment(token, docId, slotDate, slotTime)
    \/ \E q \in BagToSet(reqs) : BookUpdateDoctor(q)
    \/ \E q \in BagToSet(reqs) : BookSaveAppointment(q)
    \/ /\ Quiet
       /\ \E header \in Headers, token \in Tokens, appointmentId \in AppointmentIds :
             CancelAppointment(header, token, appointmentId)
    \/ \E q \in BagToSet(reqs) : CancelReadDoctor(q)
    \/ \E q \in BagToSet(reqs) : CancelUpdateDoctor(q)
    \/ \E q \in BagToSet(reqs) : CancelMarkAppointment(q)
    \/ \E docId \in Doctors : ChangeAvailability(docId)

SpecAuth == Init /\ [][NextAuth]_vars

\* SpecOffice: one request at a time, each client with the token of its own
\* login, every route of the appointment's life.
OrderIds == 1..MaxOrders

NextOffice ==
    \/ /\ Quiet
       /\ Len(appointments) < MaxVisits
       /\ \E token \in OwnTokens("token"), docId \in Doctors, slotDate \in Dates, slotTime \in Times :
             BookAppointment(token, docId, slotDate, slotTime)
    \/ \E q \in BagToSet(reqs) : BookUpdateDoctor(q)
    \/ \E q \in BagToSet(reqs) : BookSaveAppointment(q)
    \/ /\ Quiet
       /\ \E header \in Headers, appointmentId \in AppointmentIds :
             \E token \in OwnTokens(header) : CancelAppointment(header, token, appointmentId)
    \/ \E q \in BagToSet(reqs) : CancelReadDoctor(q)
    \/ \E q \in BagToSet(reqs) : CancelUpdateDoctor(q)
    \/ \E q \in BagToSet(reqs) : CancelMarkAppointment(q)
    \/ \E docId \in Doctors : ChangeAvailability(docId)
    \/ /\ Quiet
       /\ \E token \in OwnTokens("token"), appointmentId \in AppointmentIds :
             PaymentRazorpay(token, appointmentId)
    \/ \E q \in BagToSet(reqs) : PayCreateOrder(q)
    \/ /\ Quiet
       /\ \E token \in OwnTokens("token"), orderId \in OrderIds, paid \in BOOLEAN :
             VerifyRazorpay(token, orderId, paid)
    \/ /\ Quiet
       /\ \E token \in OwnTokens("dtoken"), appointmentId \in AppointmentIds :
             CompleteAppointment(token, appointmentId)
    \/ /\ Quiet
       /\ \E token \in OwnTokens("dtoken"), fees \in FeeValues :
             UpdateDoctorProfile(token, fees)
    \/ \E u \in Users : LoginUser(u)
    \/ DoctorList
    \/ \E token \in OwnTokens("dtoken") : DoctorDashboard(token)

SpecOffice == Init /\ [][NextOffice]_vars

\* SpecAdmin: up to NumRequests add-doctor requests in flight, any token in
\* the atoken header.
NextAdmin ==
    \/ \E token \in Tokens, docId \in Doctors \cup NewDoctors : AddDoctor(token, docId)
    \/ \E q \in BagToSet(reqs), uploaded \in BOOLEAN : AddUploadImage(q, uploaded)
    \/ \E q \in BagToSet(reqs) : AddHashPassword(q)
    \/ \E q \in BagToSet(reqs) : AddSaveDoctor(q)

SpecAdmin == Init /\ [][NextAdmin]_vars

\* SpecServer: the process is started in any environment and serves GET /.
InitServer ==
    /\ InitDatabase
    /\ server \in {Loaded(env) : env \in Envs}

\* node runs server.js, or the serverless platform imports it
StartServer ==
    /\ ~server.exported
    /\ server' = Started(server.env)
    /\ res' = NoRes
    /\ UNCHANGED <<doctors, appointments, reqs, orders, images>>

\* app.get("/", ...): res.send("API Working")
GetRoot ==
    /\ server.exported
    /\ res' = Answer("root", "API Working")
    /\ UNCHANGED <<doctors, appointments, reqs, outside>>

NextServer ==
    \/ StartServer
    \/ GetRoot

SpecServer == InitServer /\ [][NextServer]_vars

\* ================================================================ claims
Booked == Answer("book", "Appointment Booked")
SlotTaken == Answer("book", "Slot Not Available")
DoctorUnavailable == Answer("book", "Doctor Not Available")
Unauthorized(op) == Answer(op, "Not Authorized")
Cancelled == Answer("cancel", "Appointment Cancelled")

NoStateChange == UNCHANGED <<doctors, appointments, reqs>>

\* the principal kind each header is meant for
Kind(header) ==
    IF header = "token" THEN "user" ELSE IF header = "dtoken" THEN "doctor" ELSE "admin"

\* C1: of the book requests for one (doctor, date, time) that run at the same
\* time at most one is answered with success; a request that saw another one
\* of its slot succeed while it was running is answered 'Slot Not Available'.
C1_ConcurrentBooksOneWinner ==
    [][\A q \in BagToSet(reqs) :
          (BookSaveAppointment(q) /\ "rival" \in q.seen) => res' = SlotTaken]_vars

\* C2: a book request that arrives while a non-cancelled appointment holds its
\* (doctor, date, time) is answered 'Slot Not Available', creates no
\* appointment and leaves the ledger as it is.
C2_BookedSlotIsRefused ==
    [][\A token \in Tokens, docId \in Doctors, slotDate \in Dates, slotTime \in Times :
          (/\ BookAppointment(token, docId, slotDate, slotTime)
           /\ authUser(token).accepted
           /\ Active(docId, slotDate, slotTime))
          => (res' = SlotTaken /\ NoStateChange)]_vars

\* C3: whenever no request is in progress, a time is in a doctor's ledger for
\* a date exactly if a non-cancelled appointment exists for that doctor, date
\* and time.
C3_LedgerMatchesAppointments ==
    Quiet => \A docId \in Doctors, slotDate \in Dates, slotTime \in Times :
                Includes(doctors[docId].slots_booked, slotDate, slotTime)
                    <=> Active(docId, slotDate, slotTime)

\* C4: in every state and for every doctor and date, no time occurs twice in
\* the array the doctor's ledger holds for that date.
C4_NoDuplicateTimes ==
    \A docId \in Doctors : \A slotDate \in DOMAIN doctors[docId].slots_booked :
        \A i, j \in 1..Len(doctors[docId].slots_booked[slotDate]) :
            i # j => doctors[docId].slots_booked[slotDate][i]
                        # doctors[docId].slots_booked[slotDate][j]

\* the ledger of a date holds two times while an appointment of that date
\* is cancelled and a request is still running
C4_Witness ==
    /\ \E docId \in Doctors : \E slotDate \in DOMAIN doctors[docId].slots_booked :
          Len(doctors[docId].slots_booked[slotDate]) = 2
    /\ \E i \in 1..Len(appointments) : appointments[i].cancelled
    /\ ~Quiet

\* C5: once an appointment of an available doctor's (date, time) has been
\* cancelled and no non-cancelled appointment holds that slot, a book request
\* that arrives while nothing else is running is not refused with 'Slot Not
\* Available': the slot is free again.
C5_CancelledSlotCanBeBooked ==
    [][\A token \in Tokens, docId \in Doctors, slotDate \in Dates, slotTime \in Times :
          (/\ BookAppointment(token, docId, slotDate, slotTime)
           /\ authUser(token).accepted
           /\ Quiet
           /\ doctors[docId].available
           /\ WasCancelled(docId, slotDate, slotTime)
           /\ ~Active(docId, slotDate, slotTime))
          => res' # SlotTaken]_vars

\* C6: a cancel of an appointment that was cancelled before the request found
\* it changes neither a doctor document nor an appointment, and is answered
\* with success.
C6_SecondCancelChangesNothing ==
    [][\A q \in BagToSet(reqs) :
          "cancelled" \in q.seen =>
             /\ (CancelReadDoctor(q) \/ CancelUpdateDoctor(q) \/ CancelMarkAppointment(q))
                    => UNCHANGED <<doctors, appointments>>
             /\ CancelMarkAppointment(q) => res' = Cancelled]_vars

\* C7: a book request for a doctor whose available flag is false is answered
\* 'Doctor Not Available', leaves the ledger as it is and creates no
\* appointment.
C7_UnavailableDoctorIsRefused ==
    [][\A token \in Tokens, docId \in Doctors, slotDate \in Dates, slotTime \in Times :
          (/\ BookAppointment(token, docId, slotDate, slotTime)
           /\ authUser(token).accepted
           /\ ~doctors[docId].available)
          => (res' = DoctorUnavailable /\ NoStateChange)]_vars

\* C8: the step that answers a book request with success appends exactly one
\* appointment, with the request's userId, docId, slotDate and slotTime, the
\* doctor's fee as amount and the three flags false; no other step adds an
\* appointment.
C8_BookCreatesOneAppointment ==
    [][/\ \A q \in BagToSet(reqs) :
             (BookSaveAppointment(q) /\ res' = Booked) =>
                 appointments' = Append(appointments,
                      [userId |-> q.userId, docId |-> q.docId, slotDate |-> q.slotDate,
                       slotTime |-> q.slotTime, amount |-> doctors[q.docId].fees,
                       cancelled |-> FALSE, payment |-> FALSE, isCompleted |-> FALSE])
       /\ Len(appointments') # Len(appointments) =>
             /\ res' = Booked
             /\ Len(appointments') = Len(appointments) + 1
             /\ \E q \in BagToSet(reqs) : BookSaveAppointment(q)]_vars

\* a second appointment has just been created while another request runs
C8_Witness ==
    /\ res = Booked
    /\ Len(appointments) = 2
    /\ ~Quiet

\* C9: a request whose token was issued to another kind of principal than the
\* one its header is meant for is answered 'Not Authorized' and changes
\* nothing.
C9_ForeignTokenIsRejected ==
    [][/\ \A token \in Tokens, docId \in Doctors, slotDate \in Dates, slotTime \in Times :
             (BookAppointment(token, docId, slotDate, slotTime) /\ token.issuedTo # "user")
             => (res' = Unauthorized("book") /\ NoStateChange)
       /\ \A header \in Headers, token \in Tokens, appointmentId \in AppointmentIds :
             (CancelAppointment(header, token, appointmentId) /\ token.issuedTo # Kind(header))
             => (res' = Unauthorized("cancel") /\ NoStateChange)]_vars

\* C10: a cancel request of an authenticated requester whose appointmentId is
\* the id of no stored appointment is answered NotFound and changes no
\* appointment and no doctor document.
C10_CancelUnknownIdNotFound ==
    [][\A header \in Headers, token \in Tokens, appointmentId \in AppointmentIds :
          (/\ CancelAppointment(header, token, appointmentId)
           /\ Authenticate(header, token).accepted
           /\ \A i \in 1..Len(appointments) : i # appointmentId)
          => (res' = Answer("cancel", "NotFound") /\ NoStateChange)]_vars

\* a cancel was answered NotFound while the collection holds an appointment
C10_Witness ==
    /\ res = Answer("cancel", "NotFound")
    /\ Len(appointments) = 1

\* the principal a token was issued to owns the appointment: its user, its
\* doctor, or the admin
Owns(token, appointment) ==
    \/ token.issuedTo = "admin"
    \/ token.issuedTo = "user"   /\ token.id = appointment.userId
    \/ token.issuedTo = "doctor" /\ token.id = appointment.docId

C12_CreateOrderRefusals ==
    [][/\ \A token \in Tokens, appointmentId \in AppointmentIds :
             (PaymentRazorpay(token, appointmentId) /\ authUser(token).accepted) =>
                IF appointmentId \notin 1..Len(appointments)
                THEN res' = Answer("pay", "AppointmentNotFound") /\ NoStateChange
                ELSE IF appointments[appointmentId].cancelled
                THEN res' = Answer("pay", "AlreadyCancelled") /\ NoStateChange
                ELSE IF appointments[appointmentId].payment
                THEN res' = Answer("pay", "AlreadySettled") /\ NoStateChange
                ELSE TRUE
       /\ \A q \in BagToSet(reqs) :
             PayCreateOrder(q) =>
                /\ ~appointments[q.appointmentId].cancelled
                /\ ~appointments[q.appointmentId].payment]_vars

Ledger(d) == doctors[d].slots_booked

\* C15: a step changes the ledger of a doctor only if it is the ledger write
\* of a book or of a cancel request; complete, createOrder, verifyPayment,
\* change-availability, update-profile, login, the doctor list and the
\* dashboard leave every ledger as it is, and a completed appointment's time
\* stays in the ledger.
C15_OnlyBookAndCancelWriteLedger ==
    [][/\ (\E d \in Doctors : Ledger(d)' # Ledger(d))
             => \E q \in BagToSet(reqs) : BookUpdateDoctor(q) \/ CancelUpdateDoctor(q)
       /\ \A token \in Tokens, appointmentId \in AppointmentIds :
             (CompleteAppointment(token, appointmentId) /\ appointmentId \in 1..Len(appointments))
             => (Includes(Ledger(appointments[appointmentId].docId),
                          appointments[appointmentId].slotDate,
                          appointments[appointmentId].slotTime)
                 <=> Includes(Ledger(appointments[appointmentId].docId)',
                              appointments[appointmentId].slotDate,
                              appointments[appointmentId].slotTime))]_vars

\* an appointment has just been completed, it is paid, the doctor is not
\* available any more, and its time is in the ledger
C15_Witness ==
    /\ res = Answer("complete", "Appointment Completed")
    /\ \E i \in 1..Len(appointments) :
          /\ appointments[i].isCompleted /\ appointments[i].payment
          /\ ~doctors[appointments[i].docId].available
          /\ Includes(Ledger(appointments[i].docId), appointments[i].slotDate,
                      appointments[i].slotTime)

SlotsAllDifferent ==
    \A i, j \in 1..Len(appointments) :
        i # j => \/ appointments[i].docId # appointments[j].docId
                 \/ appointments[i].slotDate # appointments[j].slotDate
                 \/ appointments[i].slotTime # appointments[j].slotTime

\* C17: when every book and cancel request so far was answered with success
\* and no two of them were about the same slot, the ledger reflects each of
\* them once nothing is running: the time of every booked appointment is in
\* the ledger and the time of every cancelled one is not.
C17_DifferentSlotsBothKept ==
    (Quiet /\ SlotsAllDifferent) =>
        \A i \in 1..Len(appointments) :
            Includes(Ledger(appointments[i].docId), appointments[i].slotDate,
                     appointments[i].slotTime)
                <=> ~appointments[i].cancelled

\* C18: the ledger write of a cancel of an appointment that was cancelled
\* already leaves the time in the ledger when another appointment of the same
\* doctor, date and time is not cancelled.
C18_CancelKeepsRebookedSlot ==
    [][\A q \in BagToSet(reqs) :
          (/\ CancelUpdateDoctor(q)
           /\ "cancelled" \in q.seen
           /\ Includes(Ledger(q.docId), q.slotDate, q.slotTime)
           /\ \E i \in 1..Len(appointments) :
                 /\ i # q.appointmentId
                 /\ appointments[i].docId = q.docId
                 /\ appointments[i].slotDate = q.slotDate
                 /\ appointments[i].slotTime = q.slotTime
                 /\ ~appointments[i].cancelled)
          => Includes(Ledger(q.docId)', q.slotDate, q.slotTime)]_vars

\* C19: when a book request ends without success, the ledger does not hold
\* its time: no time stays booked for a request that created no appointment.
C19_FailedBookLeavesNoSlot ==
    [][\A q \in BagToSet(reqs) :
          (BookSaveAppointment(q) /\ res' # Booked)
          => ~Includes(Ledger(q.docId)', q.slotDate, q.slotTime)]_vars

\* C20: in every environment in which VERCEL is set, the started server has
\* exported the app and listens on no port.
C20_NoListenOnVercel ==
    (server.exported /\ Truthy(server.env.VERCEL)) => server.port = NotListening

====
